---- MODULE Spec2Model ----
(***************************************************************************)
(* A model of scripts/xid-gen-catelog.py: the generator that reads the XID *)
(* catalog workbook (two worksheets and the shared-string table), builds   *)
(* the catalog entries and the NVLink rules, renders them as Go table      *)
(* literals and writes the text to the destination path.                   *)
(*                                                                         *)
(* Text.  A Python str is a sequence of symbols.  A symbol is a one-       *)
(* character string ("7", "a", " ", "\n", "\\", "\""), one of two named    *)
(* non-ASCII digits (AR3: ARABIC-INDIC DIGIT THREE, a decimal digit of     *)
(* value 3; SUP2: SUPERSCRIPT TWO, for which str.isdigit() is true and     *)
(* int() raises ValueError), or a whole column title, which the program    *)
(* only ever compares for equality (header.index, "in header").            *)
(*                                                                         *)
(* Failures.  An operator that models a function which may raise returns   *)
(* Ok(value) or Raise(exception name), and the action that calls it ends   *)
(* the run with exit status 1 (an uncaught exception) when it raised,      *)
(* without running what follows.                                           *)
(***************************************************************************)
EXTENDS Integers, Sequences, FiniteSets, TLC

VARIABLES
    pc,             \* the statement of main() (or of the function under study) to run next
    argc,           \* len(sys.argv)
    is_file,        \* xlsx_path.is_file()
    zf,             \* the archive at xlsx_path and its parts
    shared_strings, \* main's shared_strings
    sheet1,         \* main's sheet1: a grid (a sequence of rows of strings)
    sheet2,         \* main's sheet2
    entries,        \* main's entries
    rules,          \* main's rules
    go_code,        \* main's go_code
    output_file,    \* the content at output_path
    exit_code,      \* the process's exit status; -1 while it runs
    error,          \* the uncaught exception that ended the run; None if none
    value,          \* escape_go_string's argument
    literal         \* escape_go_string's result

vars == <<pc, argc, is_file, zf, shared_strings, sheet1, sheet2, entries, rules,
          go_code, output_file, exit_code, error, value, literal>>

None == "None"

Ok(v) == [ok |-> TRUE, val |-> v]

Raise(name) == [ok |-> FALSE, exc |-> name]

IsExc(r) == ~r.ok

(***************************************************************************)
(* Bounds of the check.                                                    *)
(***************************************************************************)
\* escape_go_string is applied to every string of at most MaxLen symbols
MaxLen == 3
\* the builders are applied to grids of at most MaxRows data rows
MaxRows == 2
\* read_sheet is applied to worksheets of at most MaxXmlRows row elements
MaxXmlRows == 2

(***************************************************************************)
(* Symbols and the str methods the program calls.                          *)
(***************************************************************************)
AR3 == "ar3"
SUP2 == "sup2"

AsciiDigits == {"0", "1", "2", "3", "4", "5", "6", "7", "8", "9"}

\* str.isspace() of one symbol, for the symbols of the model
IsSpace(c) == c \in {" ", "\n", "\t"}

\* Unicode Numeric_Type=Digit or Decimal: what str.isdigit() asks of each character
IsDigitChar(c) == c \in AsciiDigits \cup {AR3, SUP2}

\* The value of a character as a digit of int(): ASCII digits and letters, and the
\* Unicode decimal digits, which int() maps to ASCII first; 99 for anything else.
DigitValue(c) ==
    CASE c = "0" -> 0 [] c = "1" -> 1 [] c = "2" -> 2 [] c = "3" -> 3 [] c = "4" -> 4
      [] c = "5" -> 5 [] c = "6" -> 6 [] c = "7" -> 7 [] c = "8" -> 8 [] c = "9" -> 9
      [] c \in {"a", "A"} -> 10 [] c \in {"b", "B"} -> 11 [] c \in {"c", "C"} -> 12
      [] c \in {"d", "D"} -> 13 [] c \in {"e", "E"} -> 14 [] c \in {"f", "F"} -> 15
      [] c = AR3 -> 3
      [] OTHER -> 99

\* The code point of a symbol: what str comparison compares.
Ord(c) ==
    CASE c = "\t" -> 9 [] c = "\n" -> 10 [] c = " " -> 32 [] c = "\"" -> 34
      [] c = "*" -> 42 [] c = "+" -> 43 [] c = "-" -> 45 [] c = "/" -> 47
      [] c \in AsciiDigits -> 48 + DigitValue(c)
      [] c = "A" -> 65 [] c = "B" -> 66 [] c = "C" -> 67 [] c = "D" -> 68
      [] c = "E" -> 69 [] c = "F" -> 70 [] c = "N" -> 78 [] c = "X" -> 88
      [] c = "\\" -> 92 [] c = "_" -> 95
      [] c = "a" -> 97 [] c = "b" -> 98 [] c = "c" -> 99 [] c = "d" -> 100
      [] c = "e" -> 101 [] c = "f" -> 102 [] c = "g" -> 103 [] c = "n" -> 110
      [] c = "x" -> 120
      [] c = SUP2 -> 178
      [] c = AR3 -> 1635
      [] OTHER -> 65536

RECURSIVE LStrip(_)
LStrip(s) == IF s # <<>> /\ IsSpace(Head(s)) THEN LStrip(Tail(s)) ELSE s

RECURSIVE RStrip(_)
RStrip(s) ==
    IF s # <<>> /\ IsSpace(s[Len(s)]) THEN RStrip(SubSeq(s, 1, Len(s) - 1)) ELSE s

\* str.strip()
Strip(s) == RStrip(LStrip(s))

\* str.isdigit(): non-empty and every character a digit
IsDigit(s) == s # <<>> /\ \A i \in 1..Len(s) : IsDigitChar(s[i])

\* str < str: lexicographic by code point
RECURSIVE StrLess(_, _)
StrLess(a, b) ==
    IF b = <<>> THEN FALSE
    ELSE IF a = <<>> THEN TRUE
    ELSE IF Ord(Head(a)) # Ord(Head(b)) THEN Ord(Head(a)) < Ord(Head(b))
    ELSE StrLess(Tail(a), Tail(b))

\* str.replace(old, new) for a one-character old
RECURSIVE Replace(_, _, _)
Replace(s, old, new) ==
    IF s = <<>> THEN <<>>
    ELSE (IF Head(s) = old THEN new ELSE <<Head(s)>>) \o Replace(Tail(s), old, new)

\* The digits of int(): digits below the base, single underscores between them.
RECURSIVE DigitsOk(_, _, _)
DigitsOk(s, base, prev) ==
    IF s = <<>> THEN prev # "_"
    ELSE IF Head(s) = "_" THEN prev # "_" /\ DigitsOk(Tail(s), base, "_")
    ELSE DigitValue(Head(s)) < base /\ DigitsOk(Tail(s), base, Head(s))

\* The digits' values, most significant first, underscores dropped.
RECURSIVE DigitValues(_)
DigitValues(s) ==
    IF s = <<>> THEN <<>>
    ELSE IF Head(s) = "_" THEN DigitValues(Tail(s))
    ELSE <<DigitValue(Head(s))>> \o DigitValues(Tail(s))

\* The digits of int(s, base), after the sign and the prefix
ParseDigits(neg, w, base) ==
    IF w = <<>> \/ ~DigitsOk(w, base, "_") THEN Raise("ValueError")
    ELSE Ok([neg |-> neg, digits |-> DigitValues(w)])

\* For base 16 a 0x or 0X prefix is skipped, and one underscore after it
SkipPrefix(u, base) ==
    IF base = 16 /\ Len(u) >= 2 /\ u[1] = "0" /\ u[2] \in {"x", "X"}
    THEN IF Len(u) >= 3 /\ u[3] = "_" THEN SubSeq(u, 4, Len(u)) ELSE SubSeq(u, 3, Len(u))
    ELSE u

\* A sign, then the rest
ParseSigned(t, base) ==
    IF t # <<>> /\ Head(t) \in {"+", "-"}
    THEN ParseDigits(Head(t) = "-", SkipPrefix(Tail(t), base), base)
    ELSE ParseDigits(FALSE, SkipPrefix(t, base), base)

\* What int(s, base) reads, for base 10 or 16: surrounding whitespace, a sign, for
\* base 16 a prefix, then the digits; ValueError otherwise.
ParseInt(s, base) == ParseSigned(Strip(s), base)

RECURSIVE FoldDigits(_, _, _)
FoldDigits(ds, base, acc) ==
    IF ds = <<>> THEN acc ELSE FoldDigits(Tail(ds), base, acc * base + Head(ds))

Int10Of(p) ==
    IF IsExc(p) THEN p
    ELSE IF p.val.neg THEN Ok(0 - FoldDigits(p.val.digits, 10, 0))
    ELSE Ok(FoldDigits(p.val.digits, 10, 0))

\* int(s): a machine integer of the model (the decimal texts of the model are short)
PyInt10(s) == Int10Of(ParseInt(s, 10))

RECURSIVE DropZeros(_)
DropZeros(ds) == IF ds # <<>> /\ Head(ds) = 0 THEN DropZeros(Tail(ds)) ELSE ds

SignMag(neg, m) == [neg |-> neg /\ m # <<>>, mag |-> m]

Int16Of(p) == IF IsExc(p) THEN p ELSE Ok(SignMag(p.val.neg, DropZeros(p.val.digits)))

\* int(s, 16).  Python's int is unbounded, and the values here pass 2^31, so the
\* result is kept as sign and magnitude: mag is the hexadecimal digits' values,
\* most significant first, without leading zeros (<<>> is 0).
PyInt16(s) == Int16Of(ParseInt(s, 16))

RECURSIVE MagLess(_, _)
MagLess(a, b) ==
    IF Len(a) # Len(b) THEN Len(a) < Len(b)
    ELSE IF a = <<>> THEN FALSE
    ELSE IF Head(a) # Head(b) THEN Head(a) < Head(b)
    ELSE MagLess(Tail(a), Tail(b))

\* a < b for two ints kept as sign and magnitude
BigLess(a, b) ==
    IF a.neg /\ ~b.neg THEN TRUE
    ELSE IF ~a.neg /\ b.neg THEN FALSE
    ELSE IF a.neg THEN MagLess(b.mag, a.mag)
    ELSE MagLess(a.mag, b.mag)

DecDigit(d) == <<"0", "1", "2", "3", "4", "5", "6", "7", "8", "9">>[d + 1]

HexDigit(d) ==
    <<"0", "1", "2", "3", "4", "5", "6", "7", "8", "9", "a", "b", "c", "d", "e", "f">>[d + 1]

\* str(n) for n >= 0, as f"{n}" renders it
RECURSIVE IntToDec(_)
IntToDec(n) == IF n < 10 THEN <<DecDigit(n)>> ELSE IntToDec(n \div 10) \o <<DecDigit(n % 10)>>

RECURSIVE Zeros(_)
Zeros(k) == IF k <= 0 THEN <<>> ELSE <<"0">> \o Zeros(k - 1)

HexWidth == 8

\* The lowercase hexadecimal digits of a magnitude
HexDigits(mag) == IF mag = <<>> THEN <<"0">> ELSE [i \in 1..Len(mag) |-> HexDigit(mag[i])]

PadZeros(sign, digits) == sign \o Zeros(HexWidth - Len(sign) - Len(digits)) \o digits

\* f"{n:08x}": the sign if negative, then the lowercase hexadecimal digits,
\* zero-padded so that the field, sign included, is at least 8 wide
Format08x(n) == PadZeros(IF n.neg THEN <<"-">> ELSE <<>>, HexDigits(n.mag))

(***************************************************************************)
(* escape_go_string                                                        *)
(***************************************************************************)
EscapeNewlineFirst(v) ==
    <<"\"">> \o
    Replace(Replace(Replace(v, "\n", <<"\\", "n">>), "\\", <<"\\", "\\">>),
            "\"", <<"\\", "\"">>)
    \o <<"\"">>

escape_go_string(v) ==
    <<"\"">> \o
    Replace(Replace(Replace(v, "\\", <<"\\", "\\">>), "\"", <<"\\", "\"">>),
            "\n", <<"\\", "n">>)
    \o <<"\"">>

(***************************************************************************)
(* load_shared_strings and read_sheet.                                     *)
(*                                                                         *)
(* The archive zf is the record                                            *)
(*   is_zip:     whether zipfile.ZipFile opens it (BadZipFile otherwise);  *)
(*   has_shared: whether xl/sharedStrings.xml is a member;                 *)
(*   shared:     that member: a sequence of <si> elements, each the        *)
(*               sequence of the texts of its descendant <t> nodes (<<>>   *)
(*               for a node without text, which the code skips as it does  *)
(*               the empty text);                                          *)
(*   has_sheet1, has_sheet2: whether the worksheets are members;           *)
(*   sheet1, sheet2: the worksheets, each a sequence of <row> elements, a  *)
(*               row a sequence of <c> elements, a cell the record         *)
(*               [t: its t attribute or None, has_v: whether it has a <v>  *)
(*               child, has_text: whether that child has text, text].      *)
(***************************************************************************)
RECURSIVE JoinFragments(_)
JoinFragments(si) ==
    IF si = <<>> THEN <<>> ELSE Head(si) \o JoinFragments(Tail(si))

load_shared_strings(z) ==
    IF ~z.has_shared THEN <<>>
    ELSE [i \in 1..Len(z.shared) |-> JoinFragments(z.shared[i])]

\* list[idx]: Python counts from 0, and a negative idx counts from the end
ListGet(list, idx) ==
    IF idx >= 0 /\ idx < Len(list) THEN Ok(list[idx + 1])
    ELSE IF idx < 0 /\ 0 - idx <= Len(list) THEN Ok(list[Len(list) + idx + 1])
    ELSE Raise("IndexError")

\* shared_strings[idx], idx being the result of int(v.text)
SharedAt(shared, idx) == IF IsExc(idx) THEN idx ELSE ListGet(shared, idx.val)

\* One iteration of read_sheet's inner loop: the string appended for cell c.
CellValue(c, shared) ==
    IF ~c.has_v THEN Ok(<<>>)
    ELSE IF c.t = "s"
         THEN IF ~c.has_text THEN Raise("TypeError")
              ELSE SharedAt(shared, PyInt10(c.text))
    ELSE IF ~c.has_text THEN Ok(<<>>) ELSE Ok(c.text)

\* values.append(...) for the cell whose result is r, unless it raised
AppendValue(values, r) == IF IsExc(r) THEN r ELSE Ok(Append(values.val, r.val))

\* read_sheet's loop over a row's cell elements, values being those so far
RECURSIVE RowValuesFrom(_, _, _)
RowValuesFrom(cells, shared, values) ==
    IF cells = <<>> \/ IsExc(values) THEN values
    ELSE RowValuesFrom(Tail(cells), shared,
                       AppendValue(values, CellValue(Head(cells), shared)))

RowValues(row, shared) == RowValuesFrom(row, shared, Ok(<<>>))

\* The mutant of AppendRow that keeps the rows without cells.
AppendRowKeepEmpty(rows, values) ==
    IF IsExc(values) THEN values ELSE Ok(Append(rows.val, values.val))

\* if values: rows.append(values), unless reading the row raised
AppendRow(rows, values) ==
    IF IsExc(values) THEN values
    ELSE IF values.val # <<>> THEN Ok(Append(rows.val, values.val))
    ELSE rows

\* read_sheet's loop over the row elements, rows being those kept so far
RECURSIVE ReadRows(_, _, _)
ReadRows(xmlrows, shared, rows) ==
    IF xmlrows = <<>> \/ IsExc(rows) THEN rows
    ELSE ReadRows(Tail(xmlrows), shared,
                  AppendRow(rows, RowValues(Head(xmlrows), shared)))

\* read_sheet(zf, sheet_name, shared_strings), given whether the archive has the
\* member (zf.read raises KeyError if not) and the member's row elements
read_sheet(has_part, part, shared) ==
    IF ~has_part THEN Raise("KeyError") ELSE ReadRows(part, shared, Ok(<<>>))

(***************************************************************************)
(* The column titles.  Each is one symbol: the program looks a title up in *)
(* the header row and never looks inside it.                               *)
(***************************************************************************)
ColType == <<"Type \n(XID)">>
ColCode == <<"Code">>
ColMnemonic == <<"Mnemonic">>
ColDescription == <<"Description">>
ColImmediate == <<"Resolution Bucket \n(Immediate Action)">>
ColInvestigatory == <<"Resolution Bucket \n(Investigatory Action)">>

ColXid == <<"Xid">>
ColSubcode == <<"Subcode V1(<R575)/V2(>=R575)\nV1(<R575): IntrInfo[9:5]\nV2(>=R575):IntrInfo[6:0]">>
ColIntrinfoV1 == <<"(V1(<R575)) IntrInfo decode for Data Center Recovery Action \nIntrInfo (binary; \"-\" user decode)">>
ColIntrinfoV2 == <<"(V2(>=R575)) IntrInfo decode for Data Center Recovery Action\nIntrInfo (binary; \"-\" user decode)">>
ColErrorStatus == <<"Error Status (hex)">>
ColResolution == <<"Resolution Bucket \n(Data Center Recovery Action)">>
ColAction2 == <<"Action 2">>
ColSeverity == <<"Severity (for items with '*' please see Customer User Guide tab)">>
ColHwSw == <<"HW/SW">>
ColLocalRemote == <<"Local/Remote (for items with '*' please see Customer User Guide tab)">>

XID == <<"X", "I", "D">>

\* name in header
InHeader(header, name) == \E i \in 1..Len(header) : header[i] = name

\* header.index(name), counted from 1: the first column with that title
Index(header, name) ==
    IF InHeader(header, name)
    THEN Ok(CHOOSE i \in 1..Len(header) :
                header[i] = name /\ \A j \in 1..(i - 1) : header[j] # name)
    ELSE Raise("ValueError")

\* row + [""] * (len(header) - len(row)) when the row is shorter than the header
Pad(row, header) ==
    IF Len(row) < Len(header)
    THEN row \o [i \in 1..(Len(header) - Len(row)) |-> <<>>]
    ELSE row

(***************************************************************************)
(* build_catalog_entries                                                   *)
(***************************************************************************)
\* list.sort(key=code) is stable: an entry goes after those whose code is not greater
RECURSIVE InsertEntry(_, _)
InsertEntry(sorted, e) ==
    IF sorted = <<>> THEN <<e>>
    ELSE IF e.code < Head(sorted).code THEN <<e>> \o sorted
    ELSE <<Head(sorted)>> \o InsertEntry(Tail(sorted), e)

RECURSIVE SortEntriesFrom(_, _)
SortEntriesFrom(es, sorted) ==
    IF es = <<>> THEN sorted ELSE SortEntriesFrom(Tail(es), InsertEntry(sorted, Head(es)))

\* The mutant of SortEntries that is not stable: an entry goes before those of its
\* code.
RECURSIVE InsertEntryBefore(_, _)
InsertEntryBefore(sorted, e) ==
    IF sorted = <<>> THEN <<e>>
    ELSE IF e.code <= Head(sorted).code THEN <<e>> \o sorted
    ELSE <<Head(sorted)>> \o InsertEntryBefore(Tail(sorted), e)

RECURSIVE SortEntriesUnstableFrom(_, _)
SortEntriesUnstableFrom(es, sorted) ==
    IF es = <<>> THEN sorted
    ELSE SortEntriesUnstableFrom(Tail(es), InsertEntryBefore(sorted, Head(es)))

SortEntriesUnstable(es) == SortEntriesUnstableFrom(es, <<>>)

\* entries.sort(key=lambda item: item["code"])
SortEntries(es) == SortEntriesFrom(es, <<>>)

\* entries.append({...}) for a row that passed the checks, code being the result
\* of int(code_str)
AppendEntry(es, row, ix, code) ==
    IF IsExc(code) THEN code
    ELSE Ok(Append(es.val, [code |-> code.val,
                            mnemonic |-> Strip(row[ix.mnemonic]),
                            description |-> Strip(row[ix.desc]),
                            immediate |-> Strip(row[ix.imm]),
                            investigatory |-> Strip(row[ix.inv])]))

\* The body of the loop over rows[1:], for a row already padded
CatalogRow(row, ix, es) ==
    IF row[ix.type] # XID THEN es
    ELSE IF row[ix.code] = <<>> \/ ~IsDigit(row[ix.code]) THEN es
    ELSE AppendEntry(es, row, ix, PyInt10(row[ix.code]))

\* The loop over rows[1:]: row k of the grid onwards, the entries so far in es.
RECURSIVE CatalogLoop(_, _, _, _)
CatalogLoop(rows, ix, k, es) ==
    IF k > Len(rows) \/ IsExc(es) THEN es
    ELSE CatalogLoop(rows, ix, k + 1, CatalogRow(Pad(rows[k], rows[1]), ix, es))

\* The header.index(...) calls, each a result
CatalogIndexes(header) ==
    [type |-> Index(header, ColType),
     code |-> Index(header, ColCode),
     mnemonic |-> Index(header, ColMnemonic),
     desc |-> Index(header, ColDescription),
     imm |-> Index(header, ColImmediate),
     inv |-> Index(header, ColInvestigatory)]

AllOk(ix) == \A f \in DOMAIN ix : ix[f].ok

Vals(ix) == [f \in DOMAIN ix |-> ix[f].val]

SortedEntries(es) == IF IsExc(es) THEN es ELSE Ok(SortEntries(es.val))

CatalogFrom(rows, ix) ==
    IF ~AllOk(ix) THEN Raise("ValueError")
    ELSE SortedEntries(CatalogLoop(rows, Vals(ix), 2, Ok(<<>>)))

build_catalog_entries(rows) ==
    IF rows = <<>> THEN Raise("IndexError") ELSE CatalogFrom(rows, CatalogIndexes(rows[1]))

(***************************************************************************)
(* build_nvlink_rules                                                      *)
(***************************************************************************)
\* The mutant of RuleLess that leaves the unit out of the key.
RuleLessNoUnit(a, b) ==
    IF a.xid # b.xid THEN a.xid < b.xid
    ELSE BigLess(a.error_status, b.error_status)

\* (a.xid, a.unit, a.error_status) < (b.xid, b.unit, b.error_status) as tuples
RuleLess(a, b) ==
    IF a.xid # b.xid THEN a.xid < b.xid
    ELSE IF a.unit # b.unit THEN StrLess(a.unit, b.unit)
    ELSE BigLess(a.error_status, b.error_status)

\* list.sort(key=...) is stable: a rule goes after those whose key is not greater
RECURSIVE InsertRule(_, _)
InsertRule(sorted, r) ==
    IF sorted = <<>> THEN <<r>>
    ELSE IF RuleLess(r, Head(sorted)) THEN <<r>> \o sorted
    ELSE <<Head(sorted)>> \o InsertRule(Tail(sorted), r)

RECURSIVE SortRulesFrom(_, _)
SortRulesFrom(rs, sorted) ==
    IF rs = <<>> THEN sorted ELSE SortRulesFrom(Tail(rs), InsertRule(sorted, Head(rs)))

\* rules.sort(key=lambda r: (r["xid"], r["unit"], r["error_status"]))
SortRules(rs) == SortRulesFrom(rs, <<>>)

\* The keys of a rule: the eight that are always set and, for each optional
\* column the header has, its key.
RuleKeys(ix) ==
    {"xid", "unit", "intrinfo_v1", "intrinfo_v2", "error_status", "resolution",
     "investigatory", "severity"}
    \cup (IF ix.action2 # 0 THEN {"action2"} ELSE {})
    \cup (IF ix.hw_sw # 0 THEN {"hw_sw"} ELSE {})
    \cup (IF ix.local_remote # 0 THEN {"local_remote"} ELSE {})

\* The column a key of the rule is read from; 0 (None in the code) for the key of
\* an optional column the header lacks.
RuleColumn(ix, key) ==
    CASE key = "xid" -> ix.xid
      [] key = "unit" -> ix.subcode
      [] key = "intrinfo_v1" -> ix.intrinfo_v1
      [] key = "intrinfo_v2" -> ix.intrinfo_v2
      [] key = "error_status" -> ix.error_status
      [] key = "resolution" -> ix.resolution
      [] key = "investigatory" -> ix.investigatory
      [] key = "severity" -> ix.severity
      [] key = "action2" -> ix.action2
      [] key = "hw_sw" -> ix.hw_sw
      [] key = "local_remote" -> ix.local_remote

\* The rule dict built from a row that passed the checks.
MakeRule(row, ix, xid, error_status) ==
    [key \in RuleKeys(ix) |->
        CASE key = "xid" -> xid
          [] key = "error_status" -> error_status
          [] OTHER -> IF RuleColumn(ix, key) = 0 THEN <<>>
                      ELSE Strip(row[RuleColumn(ix, key)])]

\* row[idx_error_status].strip() or "0x0"
ErrorStatusText(cell) == IF Strip(cell) = <<>> THEN <<"0", "x", "0">> ELSE Strip(cell)

\* rules.append(rule) for a row that passed the checks, xid being the result of
\* int(xid_str)
AppendRule(rs, row, ix, xid, error_status) ==
    IF IsExc(xid) THEN xid
    ELSE Ok(Append(rs.val, MakeRule(row, ix, xid.val, error_status)))

\* try: int(error_status_str, 16) except ValueError: continue
RuleWithStatus(rs, row, ix, xid_str, error_status) ==
    IF IsExc(error_status) THEN rs
    ELSE AppendRule(rs, row, ix, PyInt10(xid_str), error_status.val)

\* if not xid_str or not xid_str.isdigit() or not subcode: continue
RuleChecked(rs, row, ix, xid_str, subcode) ==
    IF xid_str = <<>> \/ ~IsDigit(xid_str) \/ subcode = <<>> THEN rs
    ELSE RuleWithStatus(rs, row, ix, xid_str,
                        PyInt16(ErrorStatusText(row[ix.error_status])))

\* The body of the loop over rows[1:], for a row already padded
RulesRow(row, ix, rs) ==
    RuleChecked(rs, row, ix, Strip(row[ix.xid]), Strip(row[ix.subcode]))

\* The loop over rows[1:]: row k of the grid onwards, the rules so far in rs.
RECURSIVE RulesLoop(_, _, _, _)
RulesLoop(rows, ix, k, rs) ==
    IF k > Len(rows) \/ IsExc(rs) THEN rs
    ELSE RulesLoop(rows, ix, k + 1, RulesRow(Pad(rows[k], rows[1]), ix, rs))

\* header.index(name) if name in header else None, None being 0
IndexOrNone(header, name) ==
    IF InHeader(header, name) THEN Index(header, name) ELSE Ok(0)

\* The header.index(...) calls, each a result
RulesIndexes(header) ==
    [xid |-> Index(header, ColXid),
     subcode |-> Index(header, ColSubcode),
     intrinfo_v1 |-> Index(header, ColIntrinfoV1),
     intrinfo_v2 |-> Index(header, ColIntrinfoV2),
     error_status |-> Index(header, ColErrorStatus),
     resolution |-> Index(header, ColResolution),
     action2 |-> IndexOrNone(header, ColAction2),
     investigatory |-> Index(header, ColInvestigatory),
     severity |-> Index(header, ColSeverity),
     hw_sw |-> IndexOrNone(header, ColHwSw),
     local_remote |-> IndexOrNone(header, ColLocalRemote)]

SortedRules(rs) == IF IsExc(rs) THEN rs ELSE Ok(SortRules(rs.val))

RulesFrom(rows, ix) ==
    IF ~AllOk(ix) THEN Raise("ValueError")
    ELSE SortedRules(RulesLoop(rows, Vals(ix), 2, Ok(<<>>)))

build_nvlink_rules(rows) ==
    IF rows = <<>> THEN Raise("IndexError") ELSE RulesFrom(rows, RulesIndexes(rows[1]))

(***************************************************************************)
(* write_go.  The text is kept by its parts: the entry lines and the rule  *)
(* lines, in the order written, each line the sequence of its fields       *)
(* [name, text], which the code joins as "\t{name: text, ...}," (the last  *)
(* entry field takes a closing comma of its own).  The comment lines, the  *)
(* package clause and the two declarations around the lines are fixed      *)
(* text, but for the timestamp, and are left out.                          *)
(***************************************************************************)
Field(name, text) == [name |-> name, text |-> text]

EntryLine(e) ==
    << Field("Code", IntToDec(e.code)),
       Field("Mnemonic", escape_go_string(e.mnemonic)),
       Field("Description", escape_go_string(e.description)),
       Field("ImmediateResolution", escape_go_string(e.immediate)),
       Field("InvestigatoryResolution", escape_go_string(e.investigatory)) >>

\* The mutant of OptionalField that writes the field of a key that is set, even
\* to the empty string.
OptionalFieldIfKey(rule, key, name) ==
    IF key \in DOMAIN rule
    THEN << Field(name, escape_go_string(rule[key])) >>
    ELSE <<>>

\* The field appended for an optional key: none if the rule lacks the key or its
\* value is empty.
OptionalField(rule, key, name) ==
    IF key \in DOMAIN rule /\ rule[key] # <<>>
    THEN << Field(name, escape_go_string(rule[key])) >>
    ELSE <<>>

RuleLine(r) ==
    << Field("Xid", IntToDec(r.xid)),
       Field("Unit", escape_go_string(r.unit)),
       Field("IntrinfoPatternV1", escape_go_string(r.intrinfo_v1)),
       Field("IntrinfoPatternV2", escape_go_string(r.intrinfo_v2)),
       Field("ErrorStatus", <<"0", "x">> \o Format08x(r.error_status)),
       Field("Resolution", escape_go_string(r.resolution)),
       Field("Investigatory", escape_go_string(r.investigatory)),
       Field("Severity", escape_go_string(r.severity)) >>
    \o OptionalField(r, "action2", "Action2")
    \o OptionalField(r, "hw_sw", "HwSw")
    \o OptionalField(r, "local_remote", "LocalRemote")

write_go(es, rs) ==
    [entries |-> [i \in 1..Len(es) |-> EntryLine(es[i])],
     rules |-> [i \in 1..Len(rs) |-> RuleLine(rs[i])]]

NoCode == [entries |-> <<>>, rules |-> <<>>]

(***************************************************************************)
(* main, one action per statement.  output_file is the content at          *)
(* output_path: [state |-> "previous"] until write_text opens it, then     *)
(* "written" with the text, or "truncated" when the write failed after the *)
(* file was opened.                                                        *)
(***************************************************************************)
Exit(code, exc) ==
    /\ pc' = "exited"
    /\ exit_code' = code
    /\ error' = exc

\* if len(sys.argv) != 3: usage, return 1
CheckArgs ==
    /\ pc = "argv"
    /\ IF argc # 3 THEN Exit(1, None)
       ELSE pc' = "is_file" /\ UNCHANGED <<exit_code, error>>
    /\ UNCHANGED <<argc, is_file, zf, shared_strings, sheet1, sheet2, entries, rules,
                   go_code, output_file, value, literal>>

\* if not xlsx_path.is_file(): error, return 1
CheckIsFile ==
    /\ pc = "is_file"
    /\ IF ~is_file THEN Exit(1, None)
       ELSE pc' = "open" /\ UNCHANGED <<exit_code, error>>
    /\ UNCHANGED <<argc, is_file, zf, shared_strings, sheet1, sheet2, entries, rules,
                   go_code, output_file, value, literal>>

\* with zipfile.ZipFile(xlsx_path) as zf
OpenZip ==
    /\ pc = "open"
    /\ IF ~zf.is_zip THEN Exit(1, "BadZipFile")
       ELSE pc' = "shared" /\ UNCHANGED <<exit_code, error>>
    /\ UNCHANGED <<argc, is_file, zf, shared_strings, sheet1, sheet2, entries, rules,
                   go_code, output_file, value, literal>>

LoadSharedStrings ==
    /\ pc = "shared"
    /\ shared_strings' = load_shared_strings(zf)
    /\ pc' = "sheet1"
    /\ UNCHANGED <<argc, is_file, zf, sheet1, sheet2, entries, rules, go_code,
                   output_file, exit_code, error, value, literal>>

\* x = f(...): the uncaught exception ends the run, the value goes on to pc next
Sheet1Is(r) ==
    IF IsExc(r) THEN Exit(1, r.exc) /\ UNCHANGED sheet1
    ELSE sheet1' = r.val /\ pc' = "sheet2" /\ UNCHANGED <<exit_code, error>>

Sheet2Is(r) ==
    IF IsExc(r) THEN Exit(1, r.exc) /\ UNCHANGED sheet2
    ELSE sheet2' = r.val /\ pc' = "catalog" /\ UNCHANGED <<exit_code, error>>

\* The mutant of EntriesIs that catches the builder's exception and goes on without
\* entries.
EntriesIsSwallow(r) ==
    /\ entries' = (IF IsExc(r) THEN <<>> ELSE r.val)
    /\ pc' = "rules"
    /\ UNCHANGED <<exit_code, error>>

EntriesIs(r) ==
    IF IsExc(r) THEN Exit(1, r.exc) /\ UNCHANGED entries
    ELSE entries' = r.val /\ pc' = "rules" /\ UNCHANGED <<exit_code, error>>

RulesIs(r) ==
    IF IsExc(r) THEN Exit(1, r.exc) /\ UNCHANGED rules
    ELSE rules' = r.val /\ pc' = "write_go" /\ UNCHANGED <<exit_code, error>>

ReadSheet1 ==
    /\ pc = "sheet1"
    /\ Sheet1Is(read_sheet(zf.has_sheet1, zf.sheet1, shared_strings))
    /\ UNCHANGED <<argc, is_file, zf, shared_strings, sheet2, entries, rules, go_code,
                   output_file, value, literal>>

ReadSheet2 ==
    /\ pc = "sheet2"
    /\ Sheet2Is(read_sheet(zf.has_sheet2, zf.sheet2, shared_strings))
    /\ UNCHANGED <<argc, is_file, zf, shared_strings, sheet1, entries, rules, go_code,
                   output_file, value, literal>>

BuildCatalogEntries ==
    /\ pc = "catalog"
    /\ EntriesIs(build_catalog_entries(sheet1))
    /\ UNCHANGED <<argc, is_file, zf, shared_strings, sheet1, sheet2, rules, go_code,
                   output_file, value, literal>>

BuildNvlinkRules ==
    /\ pc = "rules"
    /\ RulesIs(build_nvlink_rules(sheet2))
    /\ UNCHANGED <<argc, is_file, zf, shared_strings, sheet1, sheet2, entries, go_code,
                   output_file, value, literal>>

WriteGo ==
    /\ pc = "write_go"
    /\ go_code' = write_go(entries, rules)
    /\ pc' = "write_text"
    /\ UNCHANGED <<argc, is_file, zf, shared_strings, sheet1, sheet2, entries, rules,
                   output_file, exit_code, error, value, literal>>

\* output_path.write_text(go_code): the text is written in full, or the open
\* fails (the file is left as it was), or the write fails after the open
\* truncated the file; either failure is an uncaught OSError.
WriteText ==
    /\ pc = "write_text"
    /\ \/ /\ output_file' = [state |-> "written", text |-> go_code]
          /\ pc' = "print"
          /\ UNCHANGED <<exit_code, error>>
       \/ /\ UNCHANGED output_file
          /\ Exit(1, "OSError")
       \/ /\ output_file' = [state |-> "truncated", text |-> NoCode]
          /\ Exit(1, "OSError")
    /\ UNCHANGED <<argc, is_file, zf, shared_strings, sheet1, sheet2, entries, rules,
                   go_code, value, literal>>

\* print(...); return 0
Return0 ==
    /\ pc = "print"
    /\ Exit(0, None)
    /\ UNCHANGED <<argc, is_file, zf, shared_strings, sheet1, sheet2, entries, rules,
                   go_code, output_file, value, literal>>

\* A call of escape_go_string(value)
EscapeGoString ==
    /\ pc = "escape"
    /\ literal' = escape_go_string(value)
    /\ pc' = "escaped"
    /\ UNCHANGED <<argc, is_file, zf, shared_strings, sheet1, sheet2, entries, rules,
                   go_code, output_file, exit_code, error, value>>

(***************************************************************************)
(* The inputs of the checks.                                               *)
(***************************************************************************)
\* The strings of at most n symbols of alphabet
StringsUpTo(alphabet, n) == UNION {[1..k -> alphabet] : k \in 0..n}

EscapeAlphabet == {"\\", "\"", "\n", "n", "a"}

\* A grid's layout names its columns in order; a data row is given by the cell of
\* each column name and laid out to match ("notes" is a column the builders
\* do not look for).
Title(col) ==
    CASE col = "type" -> ColType
      [] col = "code" -> ColCode
      [] col = "mnemonic" -> ColMnemonic
      [] col = "description" -> ColDescription
      [] col = "immediate" -> ColImmediate
      [] col = "investigatory" -> ColInvestigatory
      [] col = "xid" -> ColXid
      [] col = "subcode" -> ColSubcode
      [] col = "intrinfo_v1" -> ColIntrinfoV1
      [] col = "intrinfo_v2" -> ColIntrinfoV2
      [] col = "error_status" -> ColErrorStatus
      [] col = "resolution" -> ColResolution
      [] col = "action2" -> ColAction2
      [] col = "severity" -> ColSeverity
      [] col = "hw_sw" -> ColHwSw
      [] col = "local_remote" -> ColLocalRemote
      [] col = "notes" -> <<"Notes">>

HeaderRow(layout) == [i \in 1..Len(layout) |-> Title(layout[i])]

\* The row of d under layout, cut to its first d.cells cells when d.cells > 0
\* (a worksheet row stops at its last cell that is set).
CutRow(row, cells) ==
    IF cells > 0 /\ cells < Len(row) THEN SubSeq(row, 1, cells) ELSE row

DataRow(layout, d) == CutRow([i \in 1..Len(layout) |-> d[layout[i]]], d.cells)

\* The grids of layout with at most n data rows drawn from data
Grids(layout, data, n) ==
    UNION {{<<HeaderRow(layout)>> \o [i \in 1..k |-> DataRow(layout, ds[i])] :
               ds \in [1..k -> data]} : k \in 0..n}

CatalogLayout == <<"type", "code", "mnemonic", "description", "immediate", "investigatory">>

\* The same columns in another order, after a column the builder ignores
CatalogLayoutMoved ==
    <<"notes", "code", "investigatory", "type", "mnemonic", "description", "immediate">>

CatalogDatum(type, code, mnemonic, cells) ==
    [type |-> type, code |-> code, mnemonic |-> mnemonic, description |-> <<"d", " ">>,
     immediate |-> <<>>, investigatory |-> <<"\n", "\"", "\\">>, notes |-> <<"n">>,
     cells |-> cells]

CatalogData ==
    { CatalogDatum(XID, <<"7", "9">>, <<" ", "a", " ">>, 0),
      CatalogDatum(XID, <<"1", "3">>, <<"b">>, 0),
      CatalogDatum(XID, <<"7", "9">>, <<"c">>, 0),          \* a code seen before
      CatalogDatum(XID, <<"0", "7", "9">>, <<"e">>, 0),     \* the same integer again
      CatalogDatum(XID, <<AR3>>, <<"f">>, 0),               \* a decimal digit, not ASCII
      CatalogDatum(<<"X", "I", "D", " ">>, <<"5">>, <<"b">>, 0),
      CatalogDatum(<<"x", "i", "d">>, <<"5">>, <<"b">>, 0),
      CatalogDatum(XID, <<>>, <<"b">>, 0),
      CatalogDatum(XID, <<"1", "a">>, <<"b">>, 0),
      CatalogDatum(XID, <<" ", "7">>, <<"b">>, 0),
      CatalogDatum(XID, <<SUP2>>, <<"b">>, 0),              \* isdigit() but no int()
      CatalogDatum(XID, <<"8">>, <<"b">>, 2),
      CatalogDatum(XID, <<"8">>, <<"b">>, 1) }

CatalogGrids ==
    Grids(CatalogLayout, CatalogData, MaxRows) \cup Grids(CatalogLayoutMoved, CatalogData, MaxRows)

RulesLayout ==
    <<"xid", "subcode", "intrinfo_v1", "intrinfo_v2", "error_status", "resolution",
      "action2", "investigatory", "severity", "hw_sw", "local_remote">>

RulesLayoutNoOptional ==
    <<"xid", "subcode", "intrinfo_v1", "intrinfo_v2", "error_status", "resolution",
      "investigatory", "severity">>

RulesLayoutAction2 ==
    <<"xid", "subcode", "intrinfo_v1", "intrinfo_v2", "error_status", "resolution",
      "action2", "investigatory", "severity">>

RulesLayoutMoved ==
    <<"notes", "local_remote", "hw_sw", "severity", "investigatory", "resolution",
      "error_status", "intrinfo_v2", "intrinfo_v1", "subcode", "xid">>

RuleDatum(xid, subcode, error_status, action2, hw_sw, local_remote, cells) ==
    [xid |-> xid, subcode |-> subcode, intrinfo_v1 |-> <<"-", "1">>, intrinfo_v2 |-> <<>>,
     error_status |-> error_status, resolution |-> <<" ", "r">>,
     action2 |-> action2, investigatory |-> <<"\"">>, severity |-> <<"s">>,
     hw_sw |-> hw_sw, local_remote |-> local_remote, notes |-> <<"n">>, cells |-> cells]

X144 == <<"1", "4", "4">>

RulesData ==
    { RuleDatum(X144, <<"b">>, <<"0", "x", "1", "A">>, <<"r">>, <<>>, <<"L">>, 0),
      RuleDatum(X144, <<"a">>, <<>>, <<" ">>, <<"h">>, <<>>, 0),
      RuleDatum(X144, <<"B">>, <<" ", "1", "a", " ">>, <<>>, <<"h">>, <<"L">>, 0),
      RuleDatum(<<" ", "1", "3", " ">>, <<" ", "b", " ">>, <<"0", "x", "1", "A">>,
                <<"r">>, <<"h">>, <<"L">>, 0),
      RuleDatum(X144, <<"b">>, <<"f", "f", "f", "f", "f", "f", "f", "f">>, <<>>, <<>>, <<>>, 0),
      RuleDatum(X144, <<"b">>, <<"N", "/", "A">>, <<"r">>, <<"h">>, <<"L">>, 0),
      RuleDatum(<<>>, <<"b">>, <<"0", "x", "1", "A">>, <<"r">>, <<"h">>, <<"L">>, 0),
      RuleDatum(<<"1", "a">>, <<"b">>, <<"0", "x", "1", "A">>, <<"r">>, <<"h">>, <<"L">>, 0),
      RuleDatum(X144, <<" ">>, <<"0", "x", "1", "A">>, <<"r">>, <<"h">>, <<"L">>, 0),
      \* an error status of 2^32, and a negative one
      RuleDatum(X144, <<"b">>, <<"0", "x", "1", "0", "0", "0", "0", "0", "0", "0", "0">>,
                <<"r">>, <<>>, <<>>, 0),
      RuleDatum(X144, <<"b">>, <<"-", "1">>, <<"r">>, <<>>, <<>>, 0),
      \* isdigit() but no int(), with and without an error status that parses
      RuleDatum(<<SUP2>>, <<"b">>, <<"0", "x", "1", "A">>, <<"r">>, <<"h">>, <<"L">>, 0),
      RuleDatum(<<SUP2>>, <<"b">>, <<"N", "/", "A">>, <<"r">>, <<"h">>, <<"L">>, 0),
      RuleDatum(X144, <<"c">>, <<"0", "x", "1", "A">>, <<"r">>, <<"h">>, <<"L">>, 2) }

RulesGrids ==
    Grids(RulesLayout, RulesData, MaxRows)
    \cup Grids(RulesLayoutNoOptional, RulesData, MaxRows)
    \cup Grids(RulesLayoutAction2, RulesData, MaxRows)
    \cup Grids(RulesLayoutMoved, RulesData, MaxRows)

\* One grid of each worksheet that builds without failure
CatalogGridPlain ==
    <<HeaderRow(CatalogLayout),
      DataRow(CatalogLayout, CatalogDatum(XID, <<"7", "9">>, <<" ", "a", " ">>, 0)),
      DataRow(CatalogLayout, CatalogDatum(XID, <<"1", "3">>, <<"b">>, 0))>>

RulesGridPlain ==
    <<HeaderRow(RulesLayout),
      DataRow(RulesLayout, RuleDatum(X144, <<"b">>, <<"0", "x", "1", "A">>,
                                     <<"r">>, <<>>, <<"L">>, 0)),
      DataRow(RulesLayout, RuleDatum(X144, <<"a">>, <<>>, <<" ">>, <<"h">>, <<>>, 0))>>

(***************************************************************************)
(* Workbooks.  WorkbookOf writes two grids as a workbook the way a         *)
(* spreadsheet program does: the header titles are shared strings, the     *)
(* data cells hold their text, and an empty cell has no <v> child.         *)
(***************************************************************************)
Cell(t, has_v, has_text, text) == [t |-> t, has_v |-> has_v, has_text |-> has_text, text |-> text]

SharedRef(idx) == Cell("s", TRUE, TRUE, IntToDec(idx))

TextCell(text) == Cell(None, text # <<>>, text # <<>>, text)

\* The row elements of grid, its header being shared strings from index first on
XmlOfGrid(grid, first) ==
    [k \in 1..Len(grid) |->
        [i \in 1..Len(grid[k]) |->
            IF k = 1 THEN SharedRef(first + i - 1) ELSE TextCell(grid[k][i])]]

HeaderOf(grid) == IF grid = <<>> THEN <<>> ELSE grid[1]

Archive(has_shared, shared, has_sheet1, xml1, has_sheet2, xml2) ==
    [is_zip |-> TRUE, has_shared |-> has_shared, shared |-> shared,
     has_sheet1 |-> has_sheet1, sheet1 |-> xml1,
     has_sheet2 |-> has_sheet2, sheet2 |-> xml2]

SharedOf(titles) == [i \in 1..Len(titles) |-> <<titles[i]>>]

WorkbookOf(grid1, grid2) ==
    Archive(TRUE, SharedOf(HeaderOf(grid1) \o HeaderOf(grid2)),
            TRUE, XmlOfGrid(grid1, 0),
            TRUE, XmlOfGrid(grid2, Len(HeaderOf(grid1))))

\* A file that is no zip archive
NotAZip == [is_zip |-> FALSE, has_shared |-> FALSE, shared |-> <<>>,
            has_sheet1 |-> FALSE, sheet1 |-> <<>>, has_sheet2 |-> FALSE, sheet2 |-> <<>>]

\* The catalog worksheets of the runs of main: one that builds, one whose header
\* has no Code column, one with a code that is a digit and no integer, and one
\* without rows.
MainCatalogGrids ==
    { CatalogGridPlain,
      <<HeaderRow(<<"type", "mnemonic", "description", "immediate", "investigatory">>),
        <<XID, <<"a">>>> >>,
      <<HeaderRow(CatalogLayout),
        DataRow(CatalogLayout, CatalogDatum(XID, <<SUP2>>, <<"b">>, 0))>>,
      <<>> }

\* The rule worksheets of the runs of main: one that builds, one whose header has
\* no Severity column.
MainRulesGrids ==
    { RulesGridPlain,
      <<HeaderRow(<<"xid", "subcode", "intrinfo_v1", "intrinfo_v2", "error_status",
                    "resolution", "investigatory">>),
        <<X144, <<"a">>>> >> }

\* The archive without one of its members
Without(z, member) ==
    CASE member = "shared" -> [z EXCEPT !.has_shared = FALSE, !.shared = <<>>]
      [] member = "sheet1" -> [z EXCEPT !.has_sheet1 = FALSE, !.sheet1 = <<>>]
      [] member = "sheet2" -> [z EXCEPT !.has_sheet2 = FALSE, !.sheet2 = <<>>]

MainArchives ==
    {NotAZip}
    \cup {WorkbookOf(g1, g2) : g1 \in MainCatalogGrids, g2 \in MainRulesGrids}
    \cup {Without(WorkbookOf(CatalogGridPlain, RulesGridPlain), m) :
             m \in {"shared", "sheet1", "sheet2"}}

\* The shared-string part of the worksheets read alone: one run of text, three
\* runs of which one is empty, and an <si> without text
SheetShared == << << <<"a">> >>, << <<"b">>, <<>>, <<"c", "d">> >>, <<>> >>

\* The rows of the worksheets read alone
SheetRows ==
    { <<>>,
      << SharedRef(0), Cell(None, TRUE, TRUE, <<"7">>) >>,
      << SharedRef(1), Cell(None, FALSE, FALSE, <<>>), SharedRef(2) >>,
      << Cell("n", TRUE, TRUE, <<"7", "9">>) >>,
      << Cell("str", TRUE, FALSE, <<>>) >>,
      << Cell("s", FALSE, FALSE, <<>>) >>,
      << Cell("inlineStr", FALSE, FALSE, <<>>), Cell("b", TRUE, TRUE, <<"1">>) >>,
      \* references that are no index of the table
      << SharedRef(3) >>,
      << Cell("s", TRUE, TRUE, <<"-", "1">>) >>,
      << Cell("s", TRUE, FALSE, <<>>) >>,
      << Cell("s", TRUE, TRUE, <<"x">>) >> }

SheetArchives ==
    UNION {{Archive(has_shared, IF has_shared THEN SheetShared ELSE <<>>, TRUE, xml, FALSE, <<>>) :
               xml \in [1..k -> SheetRows], has_shared \in BOOLEAN} : k \in 0..MaxXmlRows}

(***************************************************************************)
(* The specifications.                                                     *)
(***************************************************************************)
\* The state of main before its first statement, but for the inputs.
Start ==
    /\ shared_strings = <<>>
    /\ sheet1 = <<>>
    /\ sheet2 = <<>>
    /\ entries = <<>>
    /\ rules = <<>>
    /\ go_code = NoCode
    /\ output_file = [state |-> "previous", text |-> NoCode]
    /\ exit_code = -1
    /\ error = None
    /\ literal = <<>>

\* A run of main
Init ==
    /\ pc = "argv"
    /\ argc \in 1..4
    /\ is_file \in BOOLEAN
    /\ zf \in MainArchives
    /\ value = <<>>
    /\ Start

Next ==
    \/ CheckArgs
    \/ CheckIsFile
    \/ OpenZip
    \/ LoadSharedStrings
    \/ ReadSheet1
    \/ ReadSheet2
    \/ BuildCatalogEntries
    \/ BuildNvlinkRules
    \/ WriteGo
    \/ WriteText
    \/ Return0

Spec == Init /\ [][Next]_vars

\* main from the builders on: the two worksheets have been read.  One of them is
\* any grid of the check, the other the plain one (the builders share nothing).
InitBuild ==
    /\ pc = "catalog"
    /\ argc = 3
    /\ is_file = TRUE
    /\ \E g1 \in CatalogGrids, g2 \in RulesGrids :
          /\ g1 = CatalogGridPlain \/ g2 = RulesGridPlain
          /\ zf = WorkbookOf(g1, g2)
          /\ shared_strings = load_shared_strings(WorkbookOf(g1, g2))
          /\ sheet1 = g1
          /\ sheet2 = g2
    /\ entries = <<>>
    /\ rules = <<>>
    /\ go_code = NoCode
    /\ output_file = [state |-> "previous", text |-> NoCode]
    /\ exit_code = -1
    /\ error = None
    /\ value = <<>>
    /\ literal = <<>>

NextBuild ==
    \/ BuildCatalogEntries
    \/ BuildNvlinkRules
    \/ WriteGo

SpecBuild == InitBuild /\ [][NextBuild]_vars

\* main from the opened archive to the first worksheet's grid
InitSheet ==
    /\ pc = "shared"
    /\ argc = 3
    /\ is_file = TRUE
    /\ zf \in SheetArchives
    /\ value = <<>>
    /\ Start

NextSheet ==
    \/ LoadSharedStrings
    \/ ReadSheet1

SpecSheet == InitSheet /\ [][NextSheet]_vars

\* escape_go_string alone
InitEscape ==
    /\ pc = "escape"
    /\ argc = 3
    /\ is_file = TRUE
    /\ zf = NotAZip
    /\ Start
    /\ value \in StringsUpTo(EscapeAlphabet, MaxLen)

NextEscape == EscapeGoString

SpecEscape == InitEscape /\ [][NextEscape]_vars

(***************************************************************************)
(* What the claims speak of, stated apart from the operators above.        *)
(***************************************************************************)
Range(s) == {s[i] : i \in 1..Len(s)}

\* The decimal digits of the model's symbols: ASCII and Arabic-Indic (SUP2 is a
\* digit that is not decimal)
DecimalDigits == AsciiDigits \cup {AR3}

\* Non-empty and decimal digits only
IsDecimalText(s) == s # <<>> /\ \A i \in 1..Len(s) : s[i] \in DecimalDigits

RECURSIVE DecimalValueFrom(_, _)
DecimalValueFrom(s, acc) ==
    IF s = <<>> THEN acc ELSE DecimalValueFrom(Tail(s), 10 * acc + DigitValue(Head(s)))

\* The integer a decimal text denotes
DecimalValue(s) == DecimalValueFrom(s, 0)

\* s without its leading and trailing whitespace: from its first symbol that is
\* no whitespace to its last
Trim(s) ==
    LET inked == {i \in 1..Len(s) : ~IsSpace(s[i])}
    IN  IF inked = {} THEN <<>>
        ELSE SubSeq(s, CHOOSE i \in inked : \A j \in inked : i <= j,
                       CHOOSE i \in inked : \A j \in inked : j <= i)

\* The cell of row under the first column titled title, a short row being padded
\* with empty strings
CellAt(header, row, title) ==
    LET i == CHOOSE n \in 1..Len(header) :
                 header[n] = title /\ \A m \in 1..(n - 1) : header[m] # title
    IN  IF i <= Len(row) THEN row[i] ELSE <<>>

RequiredCatalog ==
    {ColType, ColCode, ColMnemonic, ColDescription, ColImmediate, ColInvestigatory}

RequiredRules ==
    {ColXid, ColSubcode, ColIntrinfoV1, ColIntrinfoV2, ColErrorStatus, ColResolution,
     ColInvestigatory, ColSeverity}

HasColumns(grid, titles) == grid # <<>> /\ \A c \in titles : InHeader(grid[1], c)

\* A catalog row that is to yield an entry
CatalogQualifies(header, row) ==
    /\ CellAt(header, row, ColType) = XID
    /\ IsDecimalText(CellAt(header, row, ColCode))

\* The entry it is to yield
ExpectedEntry(header, row) ==
    [code |-> DecimalValue(CellAt(header, row, ColCode)),
     mnemonic |-> Trim(CellAt(header, row, ColMnemonic)),
     description |-> Trim(CellAt(header, row, ColDescription)),
     immediate |-> Trim(CellAt(header, row, ColImmediate)),
     investigatory |-> Trim(CellAt(header, row, ColInvestigatory))]

QualifyingCatalogRows(grid) ==
    {k \in 2..Len(grid) : CatalogQualifies(grid[1], grid[k])}

\* es holds one entry for each qualifying row of grid and nothing else
EntriesOfRows(grid, es) ==
    /\ Len(es) = Cardinality(QualifyingCatalogRows(grid))
    /\ \A k \in QualifyingCatalogRows(grid) :
          Cardinality({i \in 1..Len(es) : es[i] = ExpectedEntry(grid[1], grid[k])})
          = Cardinality({m \in QualifyingCatalogRows(grid) :
                            ExpectedEntry(grid[1], grid[m]) = ExpectedEntry(grid[1], grid[k])})

\* A rule row that is to yield a rule
RuleQualifies(header, row) ==
    /\ IsDecimalText(Trim(CellAt(header, row, ColXid)))
    /\ Trim(CellAt(header, row, ColSubcode)) # <<>>
    /\ \/ Trim(CellAt(header, row, ColErrorStatus)) = <<>>
       \/ PyInt16(Trim(CellAt(header, row, ColErrorStatus))).ok

\* The column title a key of a rule is read from
TitleOfKey(key) ==
    CASE key = "xid" -> ColXid
      [] key = "unit" -> ColSubcode
      [] key = "intrinfo_v1" -> ColIntrinfoV1
      [] key = "intrinfo_v2" -> ColIntrinfoV2
      [] key = "error_status" -> ColErrorStatus
      [] key = "resolution" -> ColResolution
      [] key = "investigatory" -> ColInvestigatory
      [] key = "severity" -> ColSeverity
      [] key = "action2" -> ColAction2
      [] key = "hw_sw" -> ColHwSw
      [] key = "local_remote" -> ColLocalRemote

MandatoryKeys ==
    {"xid", "unit", "intrinfo_v1", "intrinfo_v2", "error_status", "resolution",
     "investigatory", "severity"}

OptionalKeys == {"action2", "hw_sw", "local_remote"}

Zero == [neg |-> FALSE, mag |-> <<>>]

\* The rule it is to yield
ExpectedRule(header, row) ==
    [key \in MandatoryKeys \cup {o \in OptionalKeys : InHeader(header, TitleOfKey(o))} |->
        CASE key = "xid" -> DecimalValue(Trim(CellAt(header, row, ColXid)))
          [] key = "error_status" ->
                 IF Trim(CellAt(header, row, ColErrorStatus)) = <<>> THEN Zero
                 ELSE PyInt16(Trim(CellAt(header, row, ColErrorStatus))).val
          [] OTHER -> Trim(CellAt(header, row, TitleOfKey(key)))]

QualifyingRuleRows(grid) == {k \in 2..Len(grid) : RuleQualifies(grid[1], grid[k])}

\* rs holds one rule for each qualifying row of grid and nothing else
RulesOfRows(grid, rs) ==
    /\ Len(rs) = Cardinality(QualifyingRuleRows(grid))
    /\ \A k \in QualifyingRuleRows(grid) :
          Cardinality({i \in 1..Len(rs) : rs[i] = ExpectedRule(grid[1], grid[k])})
          = Cardinality({m \in QualifyingRuleRows(grid) :
                            ExpectedRule(grid[1], grid[m]) = ExpectedRule(grid[1], grid[k])})

\* The grid's header and those of its data rows that the set keeps
RECURSIVE KeepRows(_, _, _)
KeepRows(grid, kept, k) ==
    IF k > Len(grid) THEN <<>>
    ELSE (IF k = 1 \/ k \in kept THEN <<grid[k]>> ELSE <<>>) \o KeepRows(grid, kept, k + 1)

\* Reading a Go string literal back: the text between the quotes, \\ a backslash,
\* \" a double quote, \n a newline; no literal if it holds a raw newline, a double
\* quote that is not escaped or another escape.
RECURSIVE UnescapeFrom(_, _)
UnescapeFrom(s, acc) ==
    IF s = <<>> THEN Ok(acc)
    ELSE IF Head(s) = "\\"
         THEN IF Len(s) >= 2 /\ s[2] \in {"\\", "\"", "n"}
              THEN UnescapeFrom(Tail(Tail(s)),
                                Append(acc, IF s[2] = "n" THEN "\n" ELSE s[2]))
              ELSE Raise("ValueError")
    ELSE IF Head(s) \in {"\"", "\n"} THEN Raise("ValueError")
    ELSE UnescapeFrom(Tail(s), Append(acc, Head(s)))

GoUnquote(lit) ==
    IF Len(lit) >= 2 /\ lit[1] = "\"" /\ lit[Len(lit)] = "\""
    THEN UnescapeFrom(SubSeq(lit, 2, Len(lit) - 1), <<>>)
    ELSE Raise("ValueError")

\* The names of a line's fields, in order, and the text of the field named name
FieldNames(line) == [i \in 1..Len(line) |-> line[i].name]

FieldText(line, name) == line[CHOOSE i \in 1..Len(line) : line[i].name = name].text

HasField(line, name) == \E i \in 1..Len(line) : line[i].name = name

\* (xid, unit, error_status) of a is not greater than that of b
TripleLeq(a, b) ==
    \/ a.xid < b.xid
    \/ /\ a.xid = b.xid
       /\ \/ StrLess(a.unit, b.unit)
          \/ a.unit = b.unit /\ ~BigLess(b.error_status, a.error_status)

(***************************************************************************)
(* The claims.                                                             *)
(***************************************************************************)

\* C1: whenever the catalog grid's header has every required column,
\* build_catalog_entries returns, and returns exactly one entry for each data row
\* (padded) whose type is "XID" and whose code is non-empty decimal digits, and
\* none for any other row.
C1_EntriesExactlyQualifyingRows ==
    [][(pc = "catalog" /\ HasColumns(sheet1, RequiredCatalog))
         => (pc' = "rules" /\ EntriesOfRows(sheet1, entries'))]_vars

\* C2: whenever the NVLink grid's header has every required column,
\* build_nvlink_rules returns, and returns exactly one rule for each data row
\* whose trimmed xid is decimal digits, whose trimmed subcode is not empty and
\* whose trimmed error status is blank or parses as hexadecimal; every other row
\* is dropped and the run goes on.
C2_RulesExactlyQualifyingRows ==
    [][(pc = "rules" /\ HasColumns(sheet2, RequiredRules))
         => (pc' = "write_go" /\ RulesOfRows(sheet2, rules'))]_vars

\* C3: in the emitted text the entry lines are in non-decreasing order of code
\* and the rule lines in non-decreasing order of (xid, unit, error status), line k
\* of each table being the line of the k-th record the builder returned.
C3_EmittedInSortedOrder ==
    pc = "write_text" =>
        /\ Len(go_code.entries) = Len(entries)
        /\ Len(go_code.rules) = Len(rules)
        /\ \A k \in 1..Len(entries) :
              /\ DecimalValue(FieldText(go_code.entries[k], "Code")) = entries[k].code
              /\ GoUnquote(FieldText(go_code.entries[k], "Mnemonic")) = Ok(entries[k].mnemonic)
        /\ \A k \in 1..Len(rules) :
              /\ DecimalValue(FieldText(go_code.rules[k], "Xid")) = rules[k].xid
              /\ GoUnquote(FieldText(go_code.rules[k], "Unit")) = Ok(rules[k].unit)
              /\ FieldText(go_code.rules[k], "ErrorStatus")
                 = <<"0", "x">> \o Format08x(rules[k].error_status)
        /\ \A i, j \in 1..Len(entries) : i < j => entries[i].code <= entries[j].code
        /\ \A i, j \in 1..Len(rules) : i < j => TripleLeq(rules[i], rules[j])

\* C3's case: the rule builder returned two rules of one xid in the order of their
\* units, which is not the order of their rows, and the text has been emitted.
C3_Witness ==
    /\ pc = "write_text"
    /\ Len(go_code.rules) = 2
    /\ Len(go_code.entries) = 2
    /\ rules[1].xid = rules[2].xid
    /\ StrLess(rules[1].unit, rules[2].unit)
    /\ Trim(CellAt(sheet2[1], sheet2[2], ColSubcode)) = rules[2].unit

\* A run's failure that the claim C4 names: a wrong argument count, a missing
\* input, an archive that cannot be read or lacks a worksheet, a worksheet
\* header without a required column.
FailureCase ==
    \/ argc # 3
    \/ ~is_file
    \/ ~zf.is_zip
    \/ ~zf.has_sheet1
    \/ ~zf.has_sheet2
    \/ pc \notin {"argv", "is_file", "open", "shared", "sheet1", "sheet2"}
       /\ (~HasColumns(sheet1, RequiredCatalog) \/ ~HasColumns(sheet2, RequiredRules))

C5_RowFailuresNeverFatal ==
    [][/\ (pc = "catalog" /\ HasColumns(sheet1, RequiredCatalog))
          => /\ pc' = "rules"
             /\ Ok(entries') = build_catalog_entries(
                                   KeepRows(sheet1, QualifyingCatalogRows(sheet1), 1))
       /\ (pc = "rules" /\ HasColumns(sheet2, RequiredRules))
          => /\ pc' = "write_go"
             /\ Ok(rules') = build_nvlink_rules(
                                 KeepRows(sheet2, QualifyingRuleRows(sheet2), 1))]_vars

\* C6: escape_go_string(s) is a literal between double quotes, without a raw
\* newline or an unescaped double quote, and reading it back gives s.
C6_EscapeRoundTrips ==
    pc = "escaped" =>
        /\ Len(literal) >= 2
        /\ literal[1] = "\""
        /\ literal[Len(literal)] = "\""
        /\ \A i \in 2..(Len(literal) - 1) : literal[i] # "\n"
        /\ GoUnquote(literal) = Ok(value)

\* C6's case: a string with a backslash, a double quote and a newline was escaped.
C6_Witness ==
    /\ pc = "escaped"
    /\ {"\\", "\"", "\n"} \subseteq Range(value)

\* A 0x and eight lowercase hexadecimal digits
IsHex32Text(s) ==
    /\ Len(s) = 2 + HexWidth
    /\ s[1] = "0"
    /\ s[2] = "x"
    /\ \A i \in 3..Len(s) : s[i] \in AsciiDigits \cup {"a", "b", "c", "d", "e", "f"}

\* C7: every emitted rule's error status is an unsigned 32-bit integer, written
\* as 0x and exactly 8 lowercase hexadecimal digits.
C7_ErrorStatusIsUint32 ==
    pc = "write_text" =>
        \A k \in 1..Len(rules) :
            /\ ~rules[k].error_status.neg
            /\ Len(rules[k].error_status.mag) <= HexWidth
            /\ IsHex32Text(FieldText(go_code.rules[k], "ErrorStatus"))

MandatoryFields ==
    <<"Xid", "Unit", "IntrinfoPatternV1", "IntrinfoPatternV2", "ErrorStatus",
      "Resolution", "Investigatory", "Severity">>

OptionalFields == <<"Action2", "HwSw", "LocalRemote">>

KeyOfField(name) ==
    CASE name = "Action2" -> "action2" [] name = "HwSw" -> "hw_sw"
      [] name = "LocalRemote" -> "local_remote"

\* The optional field named name belongs in the line of row
OptionalWanted(header, row, name) ==
    /\ InHeader(header, TitleOfKey(KeyOfField(name)))
    /\ Trim(CellAt(header, row, TitleOfKey(KeyOfField(name)))) # <<>>

\* The names of the fields the line of row is to have, in order
WantedNames(header, row) ==
    MandatoryFields
    \o SelectSeq(OptionalFields, LAMBDA name : OptionalWanted(header, row, name))

\* line is the line of row: its xid, unit and error status, the fields it has
\* and the text of its optional fields
LineOfRow(line, header, row) ==
    /\ FieldNames(line) = WantedNames(header, row)
    /\ DecimalValue(FieldText(line, "Xid")) = DecimalValue(Trim(CellAt(header, row, ColXid)))
    /\ GoUnquote(FieldText(line, "Unit")) = Ok(Trim(CellAt(header, row, ColSubcode)))
    /\ FieldText(line, "ErrorStatus")
       = <<"0", "x">> \o Format08x(ExpectedRule(header, row).error_status)
    /\ \A i \in 1..Len(OptionalFields) :
          HasField(line, OptionalFields[i]) =>
              GoUnquote(FieldText(line, OptionalFields[i]))
              = Ok(Trim(CellAt(header, row, TitleOfKey(KeyOfField(OptionalFields[i])))))

\* C8: every emitted rule line has the eight mandatory fields in their order and
\* then each optional field exactly if its column is in the header and the row's
\* trimmed cell is not empty: each line is the line of a qualifying row, and each
\* qualifying row has its line.
C8_OptionalFieldsIffPresent ==
    pc = "write_text" =>
        /\ \A k \in 1..Len(go_code.rules) :
              /\ SubSeq(FieldNames(go_code.rules[k]), 1, Len(MandatoryFields)) = MandatoryFields
              /\ \E r \in QualifyingRuleRows(sheet2) :
                    LineOfRow(go_code.rules[k], sheet2[1], sheet2[r])
        /\ \A r \in QualifyingRuleRows(sheet2) :
              \E k \in 1..Len(go_code.rules) :
                  LineOfRow(go_code.rules[k], sheet2[1], sheet2[r])

\* C8's case: under a header without Action 2 and with HW/SW, a line with the
\* HwSw field and a line without it were emitted.
C8_Witness ==
    /\ pc = "write_text"
    /\ ~InHeader(sheet2[1], ColAction2)
    /\ InHeader(sheet2[1], ColHwSw)
    /\ \E k \in 1..Len(go_code.rules) : HasField(go_code.rules[k], "HwSw")
    /\ \E k \in 1..Len(go_code.rules) : ~HasField(go_code.rules[k], "HwSw")

\* C9, as claimed: no two emitted catalog entries have the same code.
C9_CodesUnique ==
    pc = "write_text" =>
        \A i, j \in 1..Len(go_code.entries) :
            i # j => FieldText(go_code.entries[i], "Code") # FieldText(go_code.entries[j], "Code")

\* The entries of rows ks of the grid, in row order
RECURSIVE EntriesInRowOrder(_, _, _)
EntriesInRowOrder(grid, ks, k) ==
    IF k > Len(grid) THEN <<>>
    ELSE (IF k \in ks THEN <<ExpectedEntry(grid[1], grid[k])>> ELSE <<>>)
         \o EntriesInRowOrder(grid, ks, k + 1)

\* C9, amended: the builder removes no duplicate.  The emitted entries are in
\* non-decreasing order of code, and those of one code are the entries of all the
\* qualifying rows with that code, in row order; so two emitted entries share a
\* code exactly when two qualifying rows do.
C9_EqualCodesKeptInRowOrder ==
    pc = "write_text" =>
        /\ Len(go_code.entries) = Len(entries)
        /\ \A i, j \in 1..Len(entries) : i < j => entries[i].code <= entries[j].code
        /\ \A c \in {entries[i].code : i \in 1..Len(entries)}
                 \cup {ExpectedEntry(sheet1[1], sheet1[k]).code :
                          k \in QualifyingCatalogRows(sheet1)} :
              SelectSeq(entries, LAMBDA e : e.code = c)
              = EntriesInRowOrder(sheet1,
                    {k \in QualifyingCatalogRows(sheet1) :
                        ExpectedEntry(sheet1[1], sheet1[k]).code = c}, 2)

\* C9's case: two entries of one code, from two rows that differ, were emitted.
C9_Witness ==
    /\ pc = "write_text"
    /\ Len(go_code.entries) = 2
    /\ entries[1].code = entries[2].code
    /\ entries[1].mnemonic # entries[2].mnemonic

\* A shared-string cell whose value is an index of the table
IsSharedRef(c) == c.has_v /\ c.t = "s"

ValidRef(c, shared) ==
    /\ c.has_text
    /\ IsDecimalText(c.text)
    /\ DecimalValue(c.text) < Len(shared)

ValidRefs(xml, shared) ==
    \A r \in 1..Len(xml) : \A i \in 1..Len(xml[r]) :
        IsSharedRef(xml[r][i]) => ValidRef(xml[r][i], shared)

\* The string the claim gives for a cell
CellString(c, shared) ==
    IF ~c.has_v THEN <<>>
    ELSE IF c.t = "s" THEN shared[DecimalValue(c.text) + 1]
    ELSE IF c.has_text THEN c.text ELSE <<>>

\* The row elements with at least one cell, in document order
RECURSIVE RowsWithCells(_)
RowsWithCells(xml) ==
    IF xml = <<>> THEN <<>>
    ELSE (IF Len(Head(xml)) > 0 THEN <<Head(xml)>> ELSE <<>>) \o RowsWithCells(Tail(xml))

\* C10: for a worksheet whose shared-string cells hold indexes of the table,
\* read_sheet returns, in document order, one row for each row element with at
\* least one cell and none for the others, each with one string per cell: the
\* table's entry for a shared-string cell, the value's text otherwise, the empty
\* string without a value; the rows keep their own lengths.
C10_ReadSheetRowsAndCells ==
    (pc \notin {"shared", "sheet1"} /\ zf.has_sheet1 /\ ValidRefs(zf.sheet1, shared_strings)) =>
        /\ pc = "sheet2"
        /\ Len(sheet1) = Len(RowsWithCells(zf.sheet1))
        /\ \A n \in 1..Len(sheet1) :
              /\ Len(sheet1[n]) = Len(RowsWithCells(zf.sheet1)[n])
              /\ \A i \in 1..Len(sheet1[n]) :
                    sheet1[n][i] = CellString(RowsWithCells(zf.sheet1)[n][i], shared_strings)

\* C10's case: a worksheet with a row without cells before a row of differing
\* cells, a shared string among them, was read.
C10_Witness ==
    /\ pc = "sheet2"
    /\ Len(zf.sheet1) = 2
    /\ zf.sheet1[1] = <<>>
    /\ Len(zf.sheet1[2]) = 3
    /\ IsSharedRef(zf.sheet1[2][1])
    /\ Len(sheet1) = 1
    /\ sheet1[1] = << <<"b", "c", "d">>, <<>>, <<>> >>

====
